---- MODULE Spec2Model ----
(***************************************************************************)
(* Model of pkg/controllers/user/targetworkloadservice: the service-side   *)
(* reconciler (Controller.sync), the pod-side reconciler                   *)
(* (PodController.sync) and the package-level map                          *)
(* workloadServiceUUIDToDeploymentUUIDs that both share.                   *)
(*                                                                         *)
(* Strings that the code builds or takes apart are kept structured:        *)
(*   - a "namespace/name" key is the pair <<namespace, name>>              *)
(*     (fmt.Sprintf("%s/%s", ..) builds it, strings.Split(key, "/") reads  *)
(*     its two components);                                                *)
(*   - a label key is a sequence of text pieces, so that                   *)
(*     fmt.Sprintf("%s_%s", prefix, name) is <<prefix, "_", name>> and     *)
(*     strings.HasPrefix is a test on the first piece;                     *)
(*   - a Go map[string]string is a set of <<key, value>> pairs with at     *)
(*     most one pair per key; a pod's Labels field, which may be the nil   *)
(*     map, is a record [isnil, kv].                                       *)
(***************************************************************************)
EXTENDS Integers, Sequences, FiniteSets, TLC

(***************************************************************************)
(* Bounds of the model.                                                    *)
(***************************************************************************)
\* external edits of service objects (annotation changes, deletions)
MaxEdits == 1
\* redeliveries of an unchanged key by the informer's periodic resync
MaxResyncs == 1
\* pods in the pod store
MaxPods == 2

(***************************************************************************)
(* The fixed world: namespaces, workloads, pods and service keys.          *)
(***************************************************************************)
WorkloadIDLabelPrefix == "workloadID"

AppKey == <<"app">>

TierKey == <<"tier">>

ZoneKey == <<"zone">>

\* The workload directory.  Every workload has a non-empty selector.
Workloads ==
  { [id |-> "wlA", namespace |-> "ns1", name |-> "wlA", selectorLabels |-> {<<AppKey, "a">>}],
    [id |-> "wlB", namespace |-> "ns1", name |-> "wlB", selectorLabels |-> {<<AppKey, "b">>}],
    [id |-> "wlC", namespace |-> "ns2", name |-> "wlC", selectorLabels |-> {<<AppKey, "c">>}] }

\* Identifiers a service annotation may name; "wlX" resolves to nothing.
WorkloadIDs == {"wlA", "wlB", "wlC", "wlX"}

WorkloadUUID(w) == <<w.namespace, w.name>>

WorkloadUUIDs == {WorkloadUUID(w) : w \in Workloads}

PodNames == {"pA", "pB", "pC", "p0"}

PodNamespace(p) == IF p = "pC" THEN "ns2" ELSE "ns1"

SvcKeys == {<<"ns1", "svc1">>, <<"ns1", "svc2">>, <<"ns2", "svc1">>}

(***************************************************************************)
(* Go maps as sets of pairs.                                               *)
(***************************************************************************)
MapHas(m, k) == \E e \in m : e[1] = k

MapGet(m, k) == (CHOOSE e \in m : e[1] = k)[2]

\* for k, v := range src { dst[k] = v }
MapOverlay(dst, src) == {e \in dst : ~MapHas(src, e[1])} \cup src

NilLabels == [isnil |-> TRUE, kv |-> {}]

MakeLabels(kv) == [isnil |-> FALSE, kv |-> kv]

\* reflect.DeepEqual on two map[string]string values: a nil map and an empty
\* non-nil map are not deeply equal.
DeepEqual(a, b) == a.isnil = b.isnil /\ a.kv = b.kv

\* labels.SelectorFromSet(set).Matches(labels): every pair of the set is a
\* label; the empty set selects everything.
SelectorMatches(set, labelsKv) == set \subseteq labelsKv

(***************************************************************************)
(* Pure helpers of the package.                                            *)
(***************************************************************************)
getServiceSelector(serviceName) == <<WorkloadIDLabelPrefix, "_", serviceName>>

\* strings.HasPrefix(key, WorkloadIDLabelPrefix)
HasPrefix(key) == Len(key) >= 1 /\ key[1] = WorkloadIDLabelPrefix

\* json.Unmarshal of the annotation value into a []string.  A value that is
\* not valid JSON leaves the slice nil and returns an error.  A JSON array
\* with an element that is not a string ("mistyped") returns an error too,
\* but the slice is filled: the strings are decoded and the other elements
\* are left as "" (value.ids is the slice so filled).
Unmarshal(value) ==
  IF value.kind = "list" THEN [err |-> FALSE, ids |-> value.ids]
  ELSE IF value.kind = "mistyped" THEN [err |-> TRUE, ids |-> value.ids]
  ELSE [err |-> TRUE, ids |-> <<>>]

isWorkloadService(obj) ==
  IF obj.ann.kind \in {"absent", "empty"} THEN <<>>
  ELSE IF obj.noop = "true" THEN <<>>
  ELSE Unmarshal(obj.ann).ids

\* workloadLister.GetByWorkloadID
GetByWorkloadID(workloadID) ==
  IF \E w \in Workloads : w.id = workloadID
  THEN [err |-> FALSE, w |-> CHOOSE w \in Workloads : w.id = workloadID]
  ELSE [err |-> TRUE, w |-> CHOOSE w \in Workloads : TRUE]

\* workloadLister.GetWorkloadsMatchingLabels(namespace, labels)
GetWorkloadsMatchingLabels(namespace, labels) ==
  {w \in Workloads : w.namespace = namespace
                     /\ SelectorMatches(w.selectorLabels, labels.kv)}


(***************************************************************************)
(* State.                                                                  *)
(***************************************************************************)
VARIABLES
  services,   \* the service store: key -> object (or its absence)
  pods,       \* the pod store: name -> labels and deletion mark
  workloadServiceUUIDToDeploymentUUIDs,  \* the sync.Map: service key -> set
  svcQueue,   \* keys waiting for Controller.sync
  podQueue,   \* pods waiting for PodController.sync
  edits,      \* external edits made so far
  resyncs,    \* resync redeliveries made so far
  last,       \* what the last handler run did (calls it issued, its result)
  cycle,      \* the last Controller.sync that stored a set, and the pods
              \* PodController.sync has returned nil for since
  installs,   \* services.Update calls issued by reconcilePods, per key
  pending     \* per key, the registry write a running Controller.sync has
              \* yet to make

vars == <<services, pods, workloadServiceUUIDToDeploymentUUIDs, svcQueue,
          podQueue, edits, resyncs, last, cycle, installs, pending>>

NoEntry == [ok |-> FALSE, v |-> {}]

Entry(set) == [ok |-> TRUE, v |-> set]

NoCalls == [p \in PodNames |-> 0]

Idle == [op |-> "none", key |-> <<>>, ok |-> TRUE, path |-> "none",
         svcUpdates |-> 0, podUpdates |-> NoCalls, enqueued |-> {},
         had |-> NilLabels, recomputed |-> NilLabels]

NoPod == [exists |-> FALSE, labels |-> NilLabels, del |-> FALSE]

NoWrite == [kind |-> "none", uuids |-> {}]

NoCycle == [key |-> <<>>, before |-> [p \in PodNames |-> NoPod],
            old |-> NoEntry, install |-> FALSE, swept |-> {}, synced |-> {}, failed |-> {}]

(***************************************************************************)
(* The stores.                                                             *)
(***************************************************************************)
\* podLister.List(namespace, selector)
PodList(P, namespace, set) ==
  {p \in PodNames : P[p].exists /\ PodNamespace(p) = namespace
                    /\ SelectorMatches(set, P[p].labels.kv)}

\* serviceLister.Get(namespace, name)
ServiceGet(S, namespace, name) ==
  IF <<namespace, name>> \in SvcKeys /\ S[<<namespace, name>>].exists
  THEN [err |-> FALSE, obj |-> S[<<namespace, name>>]]
  ELSE [err |-> TRUE, obj |-> S[CHOOSE k \in SvcKeys : TRUE]]

\* What the pod store holds after pods.Update(toUpdate): the object is
\* serialised on its way to the store and an empty label map is omitted from
\* the encoding, so an empty map may come back as the nil map.
StoredLabels(l) == IF l.kv = {} THEN {NilLabels, MakeLabels({})} ELSE {l}

(***************************************************************************)
(* Controller (service side).                                              *)
(***************************************************************************)
\* updateServiceWorkloadPods: the pods of the key's namespace that carry the
\* service's label with value "true"; each is enqueued.
updateServiceWorkloadPods(P, key) ==
  PodList(P, key[1], {<<getServiceSelector(key[2]), "true">>})

\* a resolve loop that gives up on the whole list at the first identifier
\* that fails
targetWorkloadUUIDsAbortOnError(workloadIDs) ==
  IF \E i \in 1..Len(workloadIDs) : GetByWorkloadID(workloadIDs[i]).err
  THEN {}
  ELSE {WorkloadUUID(GetByWorkloadID(workloadIDs[i]).w) : i \in 1..Len(workloadIDs)}

\* updatePods, first loop: the keys of the workloads that resolve.
targetWorkloadUUIDs(workloadIDs) ==
  {WorkloadUUID(GetByWorkloadID(workloadIDs[i]).w) :
     i \in {j \in 1..Len(workloadIDs) : ~GetByWorkloadID(workloadIDs[j]).err}}

\* updatePods, first loop: how many times pod p is appended to podsToUpdate:
\* once per listed workload it is a live member of and per selector pair it
\* does not carry.
podsToUpdate(P, selector, workloadIDs, p) ==
  LET hits == {i \in 1..Len(workloadIDs) :
                 /\ ~GetByWorkloadID(workloadIDs[i]).err
                 /\ p \in PodList(P, GetByWorkloadID(workloadIDs[i]).w.namespace,
                                  GetByWorkloadID(workloadIDs[i]).w.selectorLabels)
                 /\ ~P[p].del}
      missing == {e \in selector : e \notin P[p].labels.kv}
  IN Cardinality(hits) * Cardinality(missing)

\* updatePods, second loop: every appended pod gets all selector pairs.
updatePods(P, selector, workloadIDs) ==
  [p \in PodNames |->
     IF podsToUpdate(P, selector, workloadIDs, p) > 0
     THEN [P[p] EXCEPT !.labels = MakeLabels(MapOverlay(P[p].labels.kv, selector))]
     ELSE P[p]]

\* a comparison that asks for the sweep whenever the set differs from the
\* stored one
cleanupOnAnyChange(old, new) == old.ok /\ old.v # new

\* Controller.sync lines 92-101: some key of the old entry is not in the new set
cleanup(old, new) == old.ok /\ \E workloadID \in old.v : workloadID \notin new

\* an install check that never finds the term
InstallNeededAlways(obj, key) == TRUE

\* an install that writes the selector back as it was
InstalledSelectorUnchanged(obj, key) == obj.sel

\* reconcilePods lines 159-168: the selector written by services.Update, or
\* the given one when the term is already there.
InstallNeeded(obj, key) == ~MapHas(obj.sel, getServiceSelector(key[2]))

InstalledSelector(obj, key) ==
  MapOverlay(obj.sel, {<<getServiceSelector(key[2]), "true">>})

Changed(P, Q) == {p \in PodNames : P[p] # Q[p]}

\* Controller.sync, removal path up to the Delete (lines 69-75)
SweepRemoved(key) ==
  LET swept == IF workloadServiceUUIDToDeploymentUUIDs[key].ok
               THEN updateServiceWorkloadPods(pods, key) ELSE {}
  IN /\ podQueue' = podQueue \cup swept
     /\ svcQueue' = svcQueue \ {key}
     /\ last' = [Idle EXCEPT !.op = "svc", !.key = key, !.path = "removed",
                             !.enqueued = swept]
     /\ cycle' = NoCycle
     /\ UNCHANGED <<services, pods, installs>>

\* a removal that deletes the entry and leaves the sweep out
SyncRemovedNoSweep(key) ==
  /\ svcQueue' = svcQueue \ {key}
  /\ last' = [Idle EXCEPT !.op = "svc", !.key = key, !.path = "removed"]
  /\ cycle' = NoCycle
  /\ workloadServiceUUIDToDeploymentUUIDs' =
       [workloadServiceUUIDToDeploymentUUIDs EXCEPT ![key] = NoEntry]
  /\ UNCHANGED <<services, pods, podQueue, installs>>

\* Controller.sync, removal path (lines 69-78)
SyncRemoved(key) ==
  /\ SweepRemoved(key)
  /\ workloadServiceUUIDToDeploymentUUIDs' =
       [workloadServiceUUIDToDeploymentUUIDs EXCEPT ![key] = NoEntry]

\* Controller.sync, lines 80-83
SyncNotWorkloadService(key) ==
  /\ svcQueue' = svcQueue \ {key}
  /\ last' = [Idle EXCEPT !.op = "svc", !.key = key, !.path = "inert"]
  /\ cycle' = NoCycle
  /\ UNCHANGED <<services, pods, workloadServiceUUIDToDeploymentUUIDs, podQueue,
                 installs>>

\* Controller.sync, lines 85-107, every call succeeding: reconcilePods, the
\* comparison with the stored set and the sweep
ReconcileAndSweep(key, obj, workloadIDs) ==
  LET install == InstallNeeded(obj, key)
      \* updatePods is handed obj, whose selector is the one read at entry
      newPods == updatePods(pods, obj.sel, workloadIDs)
      uuids == targetWorkloadUUIDs(workloadIDs)
      doCleanup == cleanup(workloadServiceUUIDToDeploymentUUIDs[key], uuids)
      swept == IF doCleanup THEN updateServiceWorkloadPods(newPods, key) ELSE {}
  IN /\ services' = IF install
                    THEN [services EXCEPT ![key].sel = InstalledSelector(obj, key)]
                    ELSE services
     /\ pods' = newPods
     \* the service's update event delivers its key again
     /\ svcQueue' = IF install THEN svcQueue \cup {key} ELSE svcQueue \ {key}
     \* so does every pod update; the sweep enqueues directly
     /\ podQueue' = podQueue \cup Changed(pods, newPods) \cup swept
     /\ last' = [Idle EXCEPT !.op = "svc", !.key = key, !.path = "workload",
                   !.svcUpdates = IF install THEN 1 ELSE 0,
                   !.podUpdates = [p \in PodNames |->
                                     podsToUpdate(pods, obj.sel, workloadIDs, p)],
                   !.enqueued = swept]
     /\ cycle' = [key |-> key, before |-> pods,
                  old |-> workloadServiceUUIDToDeploymentUUIDs[key],
                  install |-> install, swept |-> swept, synced |-> {}, failed |-> {}]
     /\ installs' = IF install THEN [installs EXCEPT ![key] = @ + 1] ELSE installs

\* a sync whose Store adds the new set to the stored one
SyncWorkloadServiceMerge(key, obj, workloadIDs) ==
  /\ ReconcileAndSweep(key, obj, workloadIDs)
  /\ workloadServiceUUIDToDeploymentUUIDs' =
       [workloadServiceUUIDToDeploymentUUIDs EXCEPT
          ![key] = Entry(@.v \cup targetWorkloadUUIDs(workloadIDs))]

\* Controller.sync, lines 85-112
SyncWorkloadService(key, obj, workloadIDs) ==
  /\ ReconcileAndSweep(key, obj, workloadIDs)
  /\ workloadServiceUUIDToDeploymentUUIDs' =
       [workloadServiceUUIDToDeploymentUUIDs EXCEPT
          ![key] = Entry(targetWorkloadUUIDs(workloadIDs))]

\* Controller.sync(key, obj): obj is the store's object for the key
ControllerSync(key) ==
  /\ key \in svcQueue
  /\ LET obj == services[key]
     IN IF ~obj.exists \/ obj.deleting
        THEN SyncRemoved(key)
        ELSE IF Len(isWorkloadService(obj)) = 0
             THEN SyncNotWorkloadService(key)
             ELSE SyncWorkloadService(key, obj, isWorkloadService(obj))
  /\ UNCHANGED <<edits, resyncs, pending>>


(***************************************************************************)
(* PodController (pod side).                                               *)
(***************************************************************************)
\* The orders in which a set can be visited.
Perms(S) ==
  {f \in [1..Cardinality(S) -> S] :
     \A i, j \in 1..Cardinality(S) : f[i] = f[j] => i = j}

\* One Range over the sync.Map (lines 240-245), visiting in rangeOrder: the
\* keys whose stored set holds deploymentUUID.
RangeHits(R, deploymentUUID, rangeOrder) ==
  SelectSeq(rangeOrder, LAMBDA k : R[k].ok /\ deploymentUUID \in R[k].v)

\* lines 237-246: the keys collected for the workloads, taken from position i
\* of the workload list on
RECURSIVE workloadServiceUUIDToAdd(_, _, _, _)
workloadServiceUUIDToAdd(R, workloads, rangeOrder, i) ==
  IF i > Len(workloads) THEN <<>>
  ELSE RangeHits(R, WorkloadUUID(workloads[i]), rangeOrder)
         \o workloadServiceUUIDToAdd(R, workloads, rangeOrder, i + 1)

\* lines 248-258: the selectors of the collected services merged in order,
\* each service fetched by the pod's namespace and the key's name part
RECURSIVE workloadServicesLabels(_, _, _, _)
workloadServicesLabels(S, namespace, uuids, acc) ==
  IF uuids = <<>> THEN [err |-> FALSE, m |-> acc]
  ELSE LET workload == ServiceGet(S, namespace, Head(uuids)[2])
       IN IF workload.err THEN [err |-> TRUE, m |-> acc]
          ELSE workloadServicesLabels(S, namespace, Tail(uuids),
                                      MapOverlay(acc, workload.obj.sel))

\* a recomputation that keeps every label of the pod
newLabelsKeepAll(objLabels, merged) == MapOverlay(objLabels.kv, merged)

\* lines 262-275: the labels kept from the pod, overlaid with the merged ones
newLabels(objLabels, merged) ==
  MapOverlay({e \in objLabels.kv : ~(HasPrefix(e[1]) /\ ~MapHas(merged, e[1]))},
             merged)

\* PodController.sync returning an error: the key is retried
PodSyncError(p) ==
  /\ last' = [Idle EXCEPT !.op = "pod", !.key = p, !.ok = FALSE]
  /\ cycle' = IF cycle.key = <<>> THEN cycle
              ELSE [cycle EXCEPT !.failed = @ \cup {p}]
  /\ UNCHANGED <<pods, podQueue>>

Synced(p) ==
  IF cycle.key = <<>> THEN cycle ELSE [cycle EXCEPT !.synced = @ \cup {p}]

\* lines 278-286
PodSyncWrite(p, obj, labels) ==
  IF DeepEqual(obj.labels, labels)
  THEN /\ podQueue' = podQueue \ {p}
       /\ last' = [Idle EXCEPT !.op = "pod", !.key = p, !.path = "labels",
                               !.had = obj.labels, !.recomputed = labels]
       /\ cycle' = Synced(p)
       /\ UNCHANGED pods
  ELSE \E stored \in StoredLabels(labels) :
         /\ pods' = [pods EXCEPT ![p].labels = stored]
         \* an update that changed the stored pod delivers its key again
         /\ podQueue' = IF stored # obj.labels THEN podQueue ELSE podQueue \ {p}
         /\ last' = [Idle EXCEPT !.op = "pod", !.key = p, !.path = "labels",
                                 !.had = obj.labels, !.recomputed = labels,
                                 !.podUpdates = [NoCalls EXCEPT ![p] = 1]]
         /\ cycle' = Synced(p)

\* PodController.sync(key, obj): obj is the store's pod
PodControllerSync(p) ==
  /\ p \in podQueue
  /\ LET obj == pods[p]
     IN IF ~obj.exists \/ obj.del
        THEN /\ podQueue' = podQueue \ {p}
             /\ last' = [Idle EXCEPT !.op = "pod", !.key = p, !.path = "deleted"]
             /\ cycle' = Synced(p)
             /\ UNCHANGED pods
        ELSE \E workloads \in Perms(GetWorkloadsMatchingLabels(PodNamespace(p), obj.labels)) :
             \* Range visits the keys that have an entry
             \E rangeOrder \in Perms({k \in SvcKeys :
                                        workloadServiceUUIDToDeploymentUUIDs[k].ok}) :
               LET uuids == workloadServiceUUIDToAdd(
                              workloadServiceUUIDToDeploymentUUIDs, workloads,
                              rangeOrder, 1)
                   merged == workloadServicesLabels(services, PodNamespace(p), uuids, {})
               IN IF merged.err
                  THEN PodSyncError(p)
                  ELSE PodSyncWrite(p, obj, MakeLabels(newLabels(obj.labels, merged.m)))
  /\ UNCHANGED <<services, workloadServiceUUIDToDeploymentUUIDs, svcQueue,
                 edits, resyncs, installs, pending>>

(***************************************************************************)
(* The environment: users edit and delete services, informers resync.      *)
(***************************************************************************)
TargetLists == {<<>>, <<"wlA">>, <<"wlA", "wlB">>, <<"wlX">>, <<"wlX", "wlB">>, <<"wlC">>}

AnnValues ==
  {[kind |-> k, ids |-> <<>>] : k \in {"absent", "empty", "malformed"}}
    \cup {[kind |-> "list", ids |-> l] : l \in TargetLists}

\* the annotation values an edit may write
EditAnns == {a \in AnnValues : a.ids \notin {<<"wlX", "wlB">>, <<"wlC">>}}

NoopValues == {"absent", "true", "false"}

Absent == [exists |-> FALSE, deleting |-> FALSE,
           ann |-> [kind |-> "absent", ids |-> <<>>], noop |-> "absent", sel |-> {}]

EditService(key, ann) ==
  /\ edits < MaxEdits
  /\ services[key].exists /\ ~services[key].deleting
  /\ ann # services[key].ann
  /\ services' = [services EXCEPT ![key].ann = ann]
  /\ svcQueue' = svcQueue \cup {key}
  /\ edits' = edits + 1
  /\ last' = [Idle EXCEPT !.op = "env"]
  /\ cycle' = NoCycle
  /\ UNCHANGED <<pods, workloadServiceUUIDToDeploymentUUIDs, podQueue, resyncs,
                 installs, pending>>

SetNoop(key, noop) ==
  /\ edits < MaxEdits
  /\ services[key].exists /\ ~services[key].deleting
  /\ noop # services[key].noop
  /\ services' = [services EXCEPT ![key].noop = noop]
  /\ svcQueue' = svcQueue \cup {key}
  /\ edits' = edits + 1
  /\ last' = [Idle EXCEPT !.op = "env"]
  /\ cycle' = NoCycle
  /\ UNCHANGED <<pods, workloadServiceUUIDToDeploymentUUIDs, podQueue, resyncs,
                 installs, pending>>

\* deletion sets the DeletionTimestamp (a finalizer holds the object) ...
MarkServiceDeleted(key) ==
  /\ edits < MaxEdits
  /\ services[key].exists /\ ~services[key].deleting
  /\ services' = [services EXCEPT ![key].deleting = TRUE]
  /\ svcQueue' = svcQueue \cup {key}
  /\ edits' = edits + 1
  /\ last' = [Idle EXCEPT !.op = "env"]
  /\ cycle' = NoCycle
  /\ UNCHANGED <<pods, workloadServiceUUIDToDeploymentUUIDs, podQueue, resyncs,
                 installs, pending>>

\* ... or removes the object from the store
RemoveService(key) ==
  /\ services[key].exists
  /\ services[key].deleting \/ edits < MaxEdits
  /\ services' = [services EXCEPT ![key] = Absent]
  /\ svcQueue' = svcQueue \cup {key}
  /\ edits' = IF services[key].deleting THEN edits ELSE edits + 1
  /\ last' = [Idle EXCEPT !.op = "env"]
  /\ cycle' = NoCycle
  /\ UNCHANGED <<pods, workloadServiceUUIDToDeploymentUUIDs, podQueue, resyncs,
                 installs, pending>>

\* a pod is marked for deletion
MarkPodDeleted(p) ==
  /\ edits < MaxEdits
  /\ pods[p].exists /\ ~pods[p].del
  /\ pods' = [pods EXCEPT ![p].del = TRUE]
  /\ podQueue' = podQueue \cup {p}
  /\ edits' = edits + 1
  /\ last' = [Idle EXCEPT !.op = "env"]
  /\ cycle' = NoCycle
  /\ UNCHANGED <<services, workloadServiceUUIDToDeploymentUUIDs, svcQueue, resyncs,
                 installs, pending>>

\* The informer's periodic resync delivers an unchanged key again; it fires
\* between bursts of work, when both queues are drained.
ResyncService(key) ==
  /\ resyncs < MaxResyncs
  /\ svcQueue = {} /\ podQueue = {}
  /\ svcQueue' = svcQueue \cup {key}
  /\ resyncs' = resyncs + 1
  /\ UNCHANGED <<services, pods, workloadServiceUUIDToDeploymentUUIDs, podQueue,
                 edits, last, cycle, installs, pending>>

ResyncPod(p) ==
  /\ resyncs < MaxResyncs
  /\ pods[p].exists
  /\ svcQueue = {} /\ podQueue = {}
  /\ podQueue' = podQueue \cup {p}
  /\ resyncs' = resyncs + 1
  /\ UNCHANGED <<services, pods, workloadServiceUUIDToDeploymentUUIDs, svcQueue,
                 edits, last, cycle, installs, pending>>

(***************************************************************************)
(* The specification with each handler run as one step.                    *)
(***************************************************************************)
InitSelectors(key) == {{}}

\* Every service starts with a target list; svc2, when there is one, shares
\* targets with svc1's lists.
InitAnns(key) ==
  {[kind |-> "list", ids |-> l] :
     l \in IF key[2] = "svc1" THEN TargetLists \ {<<>>}
           ELSE {<<"wlA", "wlB">>}}

InitServices ==
  {S \in [SvcKeys -> {Absent} \cup
                     [exists : {TRUE}, deleting : {FALSE},
                      ann : UNION {InitAnns(k) : k \in SvcKeys},
                      noop : {"absent"},
                      sel : UNION {InitSelectors(k) : k \in SvcKeys}]] :
     /\ \A k \in SvcKeys : S[k].exists =>
           S[k].sel \in InitSelectors(k) /\ S[k].ann \in InitAnns(k)
     /\ S[<<"ns1", "svc1">>].exists
     /\ ~S[<<"ns2", "svc1">>].exists}

StartLabels(p) ==
  CASE p = "pA" -> MakeLabels({<<AppKey, "a">>})
    [] p = "pB" -> MakeLabels({<<AppKey, "b">>})
    [] p = "pC" -> MakeLabels({<<AppKey, "c">>})
    [] OTHER -> NilLabels

InitPods ==
  {[p \in PodNames |->
      IF p \in present
      THEN [exists |-> TRUE, labels |-> StartLabels(p), del |-> FALSE]
      ELSE NoPod] :
     present \in {ps \in SUBSET PodNames : Cardinality(ps) = MaxPods}}

Init ==
  /\ services \in InitServices
  /\ pods \in InitPods
  /\ workloadServiceUUIDToDeploymentUUIDs = [k \in SvcKeys |-> NoEntry]
  /\ svcQueue = {k \in SvcKeys : services[k].exists}
  /\ podQueue = {p \in PodNames : pods[p].exists}
  /\ edits = 0
  /\ resyncs = 0
  /\ last = Idle
  /\ cycle = NoCycle
  /\ installs = [k \in SvcKeys |-> 0]
  /\ pending = [k \in SvcKeys |-> NoWrite]

Next ==
  \/ \E key \in SvcKeys : ControllerSync(key)
  \/ \E p \in PodNames : PodControllerSync(p)
  \/ \E key \in SvcKeys, ann \in EditAnns : EditService(key, ann)
  \/ \E key \in SvcKeys, noop \in NoopValues : SetNoop(key, noop)
  \/ \E key \in SvcKeys : MarkServiceDeleted(key)
  \/ \E key \in SvcKeys : RemoveService(key)
  \/ \E p \in PodNames : MarkPodDeleted(p)
  \/ \E key \in SvcKeys : ResyncService(key)
  \/ \E p \in PodNames : ResyncPod(p)

Spec == Init /\ [][Next]_vars


(***************************************************************************)
(* The specification with the two controllers running side by side.  The   *)
(* handlers run on separate workers, so a PodController.sync may run       *)
(* between the sweep of a Controller.sync (lines 71 and 104) and its write *)
(* to the sync.Map (lines 76 and 110).  The work queue hands a key to one  *)
(* worker at a time.                                                       *)
(***************************************************************************)
\* Controller.sync up to, and without, its write to the sync.Map
SyncBegin(key) ==
  /\ key \in svcQueue
  /\ pending[key].kind = "none"
  /\ LET obj == services[key]
     IN IF ~obj.exists \/ obj.deleting
        THEN /\ SweepRemoved(key)
             /\ pending' = [pending EXCEPT ![key] = [kind |-> "delete", uuids |-> {}]]
             /\ UNCHANGED workloadServiceUUIDToDeploymentUUIDs
        ELSE IF Len(isWorkloadService(obj)) = 0
             THEN SyncNotWorkloadService(key) /\ UNCHANGED pending
             ELSE /\ ReconcileAndSweep(key, obj, isWorkloadService(obj))
                  /\ pending' = [pending EXCEPT ![key] =
                                   [kind |-> "store",
                                    uuids |-> targetWorkloadUUIDs(isWorkloadService(obj))]]
                  /\ UNCHANGED workloadServiceUUIDToDeploymentUUIDs
  /\ UNCHANGED <<edits, resyncs>>

\* the Delete of line 76 or the Store of line 110, and the return
SyncEnd(key) ==
  /\ pending[key].kind # "none"
  /\ workloadServiceUUIDToDeploymentUUIDs' =
       [workloadServiceUUIDToDeploymentUUIDs EXCEPT
          ![key] = IF pending[key].kind = "store"
                   THEN Entry(pending[key].uuids) ELSE NoEntry]
  /\ pending' = [pending EXCEPT ![key] = NoWrite]
  /\ UNCHANGED <<services, pods, svcQueue, podQueue, edits, resyncs, last,
                 cycle, installs>>

\* svc1 targets both workloads of its namespace, each with one pod
InitConc ==
  /\ services = [k \in SvcKeys |->
                   IF k = <<"ns1", "svc1">>
                   THEN [exists |-> TRUE, deleting |-> FALSE,
                         ann |-> [kind |-> "list", ids |-> <<"wlA", "wlB">>],
                         noop |-> "absent", sel |-> {}]
                   ELSE Absent]
  /\ pods = [p \in PodNames |->
               IF p \in {"pA", "pB"}
               THEN [exists |-> TRUE, labels |-> StartLabels(p), del |-> FALSE]
               ELSE NoPod]
  /\ workloadServiceUUIDToDeploymentUUIDs = [k \in SvcKeys |-> NoEntry]
  /\ svcQueue = {k \in SvcKeys : services[k].exists}
  /\ podQueue = {p \in PodNames : pods[p].exists}
  /\ edits = 0
  /\ resyncs = 0
  /\ last = Idle
  /\ cycle = NoCycle
  /\ installs = [k \in SvcKeys |-> 0]
  /\ pending = [k \in SvcKeys |-> NoWrite]

Handlers ==
  \/ \E key \in SvcKeys : SyncBegin(key)
  \/ \E key \in SvcKeys : SyncEnd(key)
  \/ \E p \in PodNames : PodControllerSync(p)

NextConc ==
  \/ \E key \in SvcKeys : SyncBegin(key)
  \/ \E key \in SvcKeys : SyncEnd(key)
  \/ \E p \in PodNames : PodControllerSync(p)
  \/ \E key \in SvcKeys, ann \in EditAnns : EditService(key, ann)
  \/ \E key \in SvcKeys, noop \in NoopValues : SetNoop(key, noop)
  \/ \E key \in SvcKeys : MarkServiceDeleted(key)
  \/ \E key \in SvcKeys : RemoveService(key)
  \/ \E p \in PodNames : MarkPodDeleted(p)

\* every worker keeps taking keys off its queue
SpecConc == InitConc /\ [][NextConc]_vars /\ WF_vars(Handlers)


(***************************************************************************)
(* Claims.                                                                 *)
(***************************************************************************)
Term(key) == <<getServiceSelector(key[2]), "true">>

\* the service takes part in propagation
Participating(obj) ==
  obj.exists /\ ~obj.deleting /\ obj.noop # "true"
    /\ obj.ann.kind = "list" /\ obj.ann.ids # <<>>

\* C5: a sync of an existing service that no longer takes part leaves no
\* registry entry for it.
C5_EntryRemovedWhenNotParticipating ==
  (last.op = "svc" /\ last.path = "inert")
    => ~workloadServiceUUIDToDeploymentUUIDs[last.key].ok

\* C6: no registry entry holds the empty set.
C6_NoEmptyEntry ==
  \A key \in SvcKeys :
    workloadServiceUUIDToDeploymentUUIDs[key].ok
      => workloadServiceUUIDToDeploymentUUIDs[key].v # {}


\* C7: a second PodController.sync of the same pod, run right after the
\* first with nothing else changed in between, issues no pod update.
C7_SecondRunIssuesNoUpdate ==
  [][\A p \in PodNames :
       (last.op = "pod" /\ last.key = p /\ last.ok /\ PodControllerSync(p))
         => last'.podUpdates[p] = 0]_vars

\* C8: when the recomputed labels have the keys and values of the pod's
\* labels (the nil map counting as the empty map), no pod update is issued.
C8_NoUpdateWhenStructurallyEqual ==
  (last.op = "pod" /\ last.path = "labels" /\ last.recomputed.kv = last.had.kv)
    => last.podUpdates[last.key] = 0

\* C9: however often a service is synced, reconcilePods issues at most one
\* selector-installing service update for it, and a sync that finds the term
\* in the selector issues no service update and leaves the services alone.
C9_SelectorInstalledOnce ==
  [][\A key \in SvcKeys :
       ControllerSync(key)
         => /\ installs'[key] <= 1
            /\ (Term(key) \in services[key].sel
                  => last'.svcUpdates = 0 /\ services' = services)]_vars

\* a repeated sync of a service that found its term installed and wrote nothing
C9_Witness ==
  /\ last.op = "svc" /\ last.path = "workload" /\ last.svcUpdates = 0
  /\ installs[last.key] = 1
  /\ resyncs = 1


Ids(obj) == {obj.ann.ids[i] : i \in 1..Len(obj.ann.ids)}

\* the workloads the service's declared identifiers resolve to
Resolved(obj) == {GetByWorkloadID(id).w : id \in {i \in Ids(obj) : ~GetByWorkloadID(i).err}}

\* the pods, not marked for deletion, of the resolved target workloads, as
\* the pod store listed them when the cycle's Controller.sync ran
Members(obj) ==
  {p \in PodNames :
     /\ cycle.before[p].exists /\ ~cycle.before[p].del
     /\ \E w \in Resolved(obj) :
          p \in PodList(cycle.before, w.namespace, w.selectorLabels)}

\* a cycle of the service is complete: its Controller.sync stored a set and
\* PodController.sync has since run for each member pod
FullCycle(key) ==
  /\ cycle.key = key
  /\ Participating(services[key])
  /\ \A id \in Ids(services[key]) : ~GetByWorkloadID(id).err
  /\ Members(services[key]) \subseteq (cycle.synced \cup cycle.failed)

\* ... and PodController.sync returned nil for each of them
FullCycleDone(key) ==
  FullCycle(key) /\ Members(services[key]) \subseteq cycle.synced

Dependents(p) ==
  {k \in SvcKeys :
     /\ workloadServiceUUIDToDeploymentUUIDs[k].ok
     /\ \E w \in GetWorkloadsMatchingLabels(PodNamespace(p), pods[p].labels) :
          WorkloadUUID(w) \in workloadServiceUUIDToDeploymentUUIDs[k].v}

WorkloadsBefore(p) ==
  {WorkloadUUID(w) :
     w \in GetWorkloadsMatchingLabels(PodNamespace(p), cycle.before[p].labels)}

\* the service's Controller.sync found its entry holding targets it no longer
\* resolves, and pod p, carrying the service's label, belonged to such
\* targets only
ShrunkAway(key, p) ==
  /\ cycle.key = key
  /\ cycle.old.ok
  /\ workloadServiceUUIDToDeploymentUUIDs[key].ok
  /\ pods[p].exists /\ ~pods[p].del
  /\ Term(key) \in cycle.before[p].labels.kv
  /\ WorkloadsBefore(p) # {}
  /\ WorkloadsBefore(p) \subseteq
       (cycle.old.v \ workloadServiceUUIDToDeploymentUUIDs[key].v)

\* C2: once a service's target set has shrunk, one Controller.sync of the
\* service followed by one PodController.sync of a pod of a removed target
\* leaves the pod without the service's label key.
C2_ConvergenceUnderShrink ==
  \A key \in SvcKeys : \A p \in PodNames :
    (ShrunkAway(key, p) /\ p \in cycle.synced)
      => ~MapHas(pods[p].labels.kv, getServiceSelector(key[2]))

\* svc1's entry was {wlA, wlB}, the sync stored {wlA} and requeued pB, and
\* pB's sync has removed the label
C2_Witness ==
  /\ ShrunkAway(<<"ns1", "svc1">>, "pB")
  /\ cycle.old.v = {<<"ns1", "wlA">>, <<"ns1", "wlB">>}
  /\ workloadServiceUUIDToDeploymentUUIDs[<<"ns1", "svc1">>].v = {<<"ns1", "wlA">>}
  /\ "pB" \in cycle.swept
  /\ "pB" \in cycle.synced
  /\ pods["pB"].labels = MakeLabels({<<AppKey, "b">>})

\* the declared identifiers split into some that resolve and some that do not
PartlyResolved(obj) ==
  /\ \E id \in Ids(obj) : GetByWorkloadID(id).err
  /\ \E id \in Ids(obj) : ~GetByWorkloadID(id).err

\* C10: when one declared identifier does not resolve and another does, the
\* Controller.sync still succeeds, stores exactly the keys of the workloads
\* that resolve, and their pods are labelled: by that sync when it found the
\* term installed, and by the pod's own sync otherwise.
C10_SkipOnFailure ==
  \A key \in SvcKeys :
    (cycle.key = key /\ Participating(services[key]) /\ PartlyResolved(services[key]))
      => /\ workloadServiceUUIDToDeploymentUUIDs[key]
              = Entry({WorkloadUUID(w) : w \in Resolved(services[key])})
         /\ \A p \in Members(services[key]) :
              (~cycle.install \/ p \in cycle.synced)
                => Term(key) \in pods[p].labels.kv

\* svc1 declares wlX and wlB; the sync stored {wlB} alone and labelled pB
C10_Witness ==
  /\ cycle.key = <<"ns1", "svc1">>
  /\ services[<<"ns1", "svc1">>].ann.ids = <<"wlX", "wlB">>
  /\ ~cycle.install
  /\ last.op = "svc" /\ last.podUpdates["pB"] = 1
  /\ workloadServiceUUIDToDeploymentUUIDs[<<"ns1", "svc1">>] = Entry({<<"ns1", "wlB">>})
  /\ Term(<<"ns1", "svc1">>) \in pods["pB"].labels.kv


\* no handler is running and no key is waiting
Quiescent ==
  /\ svcQueue = {} /\ podQueue = {}
  /\ \A k \in SvcKeys : pending[k].kind = "none"

\* the workloads the pod belongs to
WorkloadsOf(p) ==
  {WorkloadUUID(w) : w \in GetWorkloadsMatchingLabels(PodNamespace(p), pods[p].labels)}

\* C3: once every queued key has been handled, a live pod whose workloads
\* are all outside a service's stored set does not carry that service's
\* label, whatever the interleaving of the two controllers was.
C3_SelfHealing ==
  \A key \in SvcKeys : \A p \in PodNames :
    (/\ Quiescent
     /\ workloadServiceUUIDToDeploymentUUIDs[key].ok
     /\ pods[p].exists /\ ~pods[p].del
     /\ WorkloadsOf(p) # {}
     /\ WorkloadsOf(p) \cap workloadServiceUUIDToDeploymentUUIDs[key].v = {})
      => ~MapHas(pods[p].labels.kv, getServiceSelector(key[2]))

\* C4: once every queued key has been handled after a service was deleted,
\* its registry entry is gone and no live pod of its namespace carries its
\* label, whatever the interleaving of the two controllers was.
C4_DeletionCleanup ==
  \A key \in SvcKeys :
    (Quiescent /\ (~services[key].exists \/ services[key].deleting))
      => /\ ~workloadServiceUUIDToDeploymentUUIDs[key].ok
         /\ \A p \in PodNames :
              (pods[p].exists /\ ~pods[p].del /\ PodNamespace(p) = key[1])
                => ~MapHas(pods[p].labels.kv, getServiceSelector(key[2]))


(***************************************************************************)
(* The specification for services that come with selectors of their own    *)
(* and pods that come with labels of their own.  svc1 and svc2 target wlA, *)
(* whose pod is pA; nothing edits the services.                            *)
(***************************************************************************)
\* a label key that starts with the prefix and is not built by
\* getServiceSelector ("workloadIDx")
PrefixedKey == <<WorkloadIDLabelPrefix, "x">>

SelSelectors(key) ==
  IF key[2] = "svc1"
  THEN {{}, {<<TierKey, "one">>}, {<<AppKey, "z">>},
        {<<TierKey, "one">>, <<ZoneKey, "a">>}}
  ELSE {{<<TierKey, "two">>}}

\* svc1's annotation is the list ["wlA"] or the array ["wlA", 1]
SelAnns(key) ==
  IF key[2] = "svc1"
  THEN {[kind |-> "list", ids |-> <<"wlA">>], [kind |-> "mistyped", ids |-> <<"wlA", "">>]}
  ELSE {[kind |-> "list", ids |-> <<"wlA">>]}

SelLabels(p) ==
  CASE p = "pA" -> MakeLabels({<<AppKey, "a">>, <<PrefixedKey, "v">>})
    [] p = "pB" -> MakeLabels({<<AppKey, "b">>})
    [] OTHER -> NilLabels

InitSel ==
  /\ services \in
       {S \in [SvcKeys -> {Absent} \cup
                          [exists : {TRUE}, deleting : {FALSE},
                           ann : UNION {SelAnns(k) : k \in SvcKeys},
                           noop : {"absent"},
                           sel : UNION {SelSelectors(k) : k \in SvcKeys}]] :
          /\ \A k \in SvcKeys : S[k].exists =>
                S[k].sel \in SelSelectors(k) /\ S[k].ann \in SelAnns(k)
          /\ S[<<"ns1", "svc1">>].exists
          /\ ~S[<<"ns2", "svc1">>].exists}
  /\ pods = [p \in PodNames |->
               IF p \in {"pA", "pB"}
               THEN [exists |-> TRUE, labels |-> SelLabels(p), del |-> FALSE]
               ELSE NoPod]
  /\ workloadServiceUUIDToDeploymentUUIDs = [k \in SvcKeys |-> NoEntry]
  /\ svcQueue = {k \in SvcKeys : services[k].exists}
  /\ podQueue = {p \in PodNames : pods[p].exists}
  /\ edits = 0
  /\ resyncs = 0
  /\ last = Idle
  /\ cycle = NoCycle
  /\ installs = [k \in SvcKeys |-> 0]
  /\ pending = [k \in SvcKeys |-> NoWrite]

NextSel ==
  \/ \E key \in SvcKeys : ControllerSync(key)
  \/ \E p \in PodNames : PodControllerSync(p)
  \/ \E key \in SvcKeys : ResyncService(key)
  \/ \E p \in PodNames : ResyncPod(p)

SpecSel == InitSel /\ [][NextSel]_vars

\* C11: whatever the two reconcilers have done, every pod has the labels
\* outside the prefix that it started with, key for key and value for value.
C11_LabelFrame ==
  \A p \in PodNames :
    pods[p].exists =>
      {e \in pods[p].labels.kv : ~HasPrefix(e[1])}
        = {e \in SelLabels(p).kv : ~HasPrefix(e[1])}


\* the service keys in ascending lexicographic order of "namespace/name"
AscendingKeys == << <<"ns1", "svc1">>, <<"ns1", "svc2">>, <<"ns2", "svc1">> >>

\* the selectors of the services that hold one of the workloads of a pod
\* with the given labels, merged in ascending order of service key
SortedMerge(p, labels) ==
  LET mine == {WorkloadUUID(w) : w \in GetWorkloadsMatchingLabels(PodNamespace(p), labels)}
      keys == SelectSeq(AscendingKeys,
                LAMBDA k : /\ workloadServiceUUIDToDeploymentUUIDs[k].ok
                           /\ workloadServiceUUIDToDeploymentUUIDs[k].v \cap mine # {})
  IN workloadServicesLabels(services, PodNamespace(p), keys, {}).m

\* C12: the labels a PodController.sync computes are the pod's labels merged
\* with the dependent services' selectors taken in ascending order of
\* service key, in whatever order Range visited the entries.
C12_DeterministicMerge ==
  (last.op = "pod" /\ last.path = "labels")
    => last.recomputed.kv = newLabels(last.had, SortedMerge(last.key, last.had))


(***************************************************************************)
(* The specification with store calls that fail.  Controller.sync returns  *)
(* at the first call that fails and the work queue keeps the key for a     *)
(* retry.                                                                  *)
(***************************************************************************)
\* the pods the first loop of updatePods appends for the workload at
\* position i, each taken once: a further appearance of a pod writes the
\* labels its first appearance wrote
AppendedFor(P, selector, workloadIDs, i) ==
  IF GetByWorkloadID(workloadIDs[i]).err THEN {}
  ELSE {p \in PodList(P, GetByWorkloadID(workloadIDs[i]).w.namespace,
                      GetByWorkloadID(workloadIDs[i]).w.selectorLabels) :
          ~P[p].del /\ \E e \in selector : e \notin P[p].labels.kv}

\* the orders in which podsToUpdate may hold the pods (lines 175-207): the
\* workloads in the order of the annotation, the pods of one workload in the
\* order the lister returns them
RECURSIVE podsToUpdateOrders(_, _, _, _)
podsToUpdateOrders(P, selector, workloadIDs, i) ==
  IF i > Len(workloadIDs) THEN {<<>>}
  ELSE {head \o tail :
          head \in Perms(AppendedFor(P, selector, workloadIDs, i)),
          tail \in podsToUpdateOrders(P, selector, workloadIDs, i + 1)}

\* the pod store after the second loop of updatePods (lines 210-219) has
\* updated the first n pods of the order
UpdatedUpTo(P, selector, order, n) ==
  [p \in PodNames |->
     IF \E j \in 1..n : order[j] = p
     THEN [P[p] EXCEPT !.labels = MakeLabels(MapOverlay(P[p].labels.kv, selector))]
     ELSE P[p]]

\* the sync.Map after a failing Controller.sync that stored its result
\* before it returned the error
RegistryStoredEarly(key, uuids) ==
  [workloadServiceUUIDToDeploymentUUIDs EXCEPT ![key] = Entry(uuids)]

\* the sync.Map after a Controller.sync that returns an error: every return
\* with an error comes before the Store of line 110 and the Delete of line 76
RegistryOnError(key, uuids) == workloadServiceUUIDToDeploymentUUIDs

\* what a failing Controller.sync leaves behind: the service and pod stores
\* as given, the key still queued
SyncFailed(key, path, S, Q, installed) ==
  /\ services' = S
  /\ pods' = Q
  /\ svcQueue' = svcQueue \cup {key}
  /\ podQueue' = podQueue \cup Changed(pods, Q)
  /\ last' = [Idle EXCEPT !.op = "svc", !.key = key, !.ok = FALSE, !.path = path,
                !.svcUpdates = IF installed THEN 1 ELSE 0,
                !.podUpdates = [p \in PodNames |-> IF pods[p] # Q[p] THEN 1 ELSE 0]]
  /\ cycle' = NoCycle
  /\ installs' = IF installed THEN [installs EXCEPT ![key] = @ + 1] ELSE installs

\* Controller.sync returning an error
ControllerSyncError(key) ==
  /\ key \in svcQueue
  /\ LET obj == services[key]
         workloadIDs == isWorkloadService(obj)
         install == InstallNeeded(obj, key)
         installed == IF install
                      THEN [services EXCEPT ![key].sel = InstalledSelector(obj, key)]
                      ELSE services
         uuids == targetWorkloadUUIDs(workloadIDs)
     IN /\ workloadServiceUUIDToDeploymentUUIDs' = RegistryOnError(key, uuids)
        /\ IF ~obj.exists \/ obj.deleting
           THEN \* the sweep's List fails (lines 71-73)
                /\ workloadServiceUUIDToDeploymentUUIDs[key].ok
                /\ SyncFailed(key, "removed", services, pods, FALSE)
           ELSE /\ Len(workloadIDs) > 0
                /\ \/ \* services.Update fails (lines 164-167)
                      /\ install
                      /\ SyncFailed(key, "workload", services, pods, FALSE)
                   \/ \* podLister.List fails for a resolved workload (lines 192-195)
                      /\ uuids # {}
                      /\ SyncFailed(key, "workload", installed, pods, install)
                   \/ \* pods.Update fails for the n-th appended pod (lines 215-218)
                      \E order \in podsToUpdateOrders(pods, obj.sel, workloadIDs, 1) :
                        \E n \in 1..Len(order) :
                          SyncFailed(key, "workload", installed,
                                     UpdatedUpTo(pods, obj.sel, order, n - 1), install)
                   \/ \* the sweep's List fails (lines 104-106)
                      /\ cleanup(workloadServiceUUIDToDeploymentUUIDs[key], uuids)
                      /\ SyncFailed(key, "workload", installed,
                                    updatePods(pods, obj.sel, workloadIDs), install)
  /\ UNCHANGED <<edits, resyncs, pending>>

NextFail ==
  \/ \E key \in SvcKeys : ControllerSync(key)
  \/ \E key \in SvcKeys : ControllerSyncError(key)
  \/ \E p \in PodNames : PodControllerSync(p)
  \/ \E key \in SvcKeys, ann \in EditAnns : EditService(key, ann)
  \/ \E key \in SvcKeys : MarkServiceDeleted(key)
  \/ \E key \in SvcKeys : RemoveService(key)

SpecFail == InitConc /\ [][NextFail]_vars

\* C13: the sync.Map changes only in a Controller.sync that returns nil: a
\* Controller.sync that returns an error (its step ends with last.ok false)
\* leaves every entry as it was.
C13_ErrorLeavesRegistry ==
  [][(workloadServiceUUIDToDeploymentUUIDs' # workloadServiceUUIDToDeploymentUUIDs)
       => (last'.op = "svc" /\ last'.ok)]_vars

\* svc1's sync failed after it had updated a pod, and svc1's earlier entry,
\* which no longer matches its targets, is still there
C13_Witness ==
  /\ last.op = "svc" /\ ~last.ok /\ last.key = <<"ns1", "svc1">>
  /\ \E p \in PodNames : last.podUpdates[p] = 1
  /\ workloadServiceUUIDToDeploymentUUIDs[<<"ns1", "svc1">>].ok
  /\ workloadServiceUUIDToDeploymentUUIDs[<<"ns1", "svc1">>].v
       # targetWorkloadUUIDs(isWorkloadService(services[<<"ns1", "svc1">>]))

\* the opt-out annotation is "true", or the target annotation is absent,
\* empty, or does not decode
NotParticipating(obj) ==
  \/ obj.noop = "true"
  \/ obj.ann.kind \in {"absent", "empty"}
  \/ Unmarshal(obj.ann).err

\* C14: a Controller.sync of an existing service that is not marked for
\* deletion and whose opt-out annotation is "true" or whose target annotation
\* is absent, empty or does not decode returns nil, leaves the sync.Map, the
\* service and every pod as they were and enqueues nothing.
C14_NonParticipatingInert ==
  [][(/\ last'.op = "svc" /\ ControllerSync(last'.key)
      /\ services[last'.key].exists /\ ~services[last'.key].deleting
      /\ NotParticipating(services[last'.key]))
       => (/\ last'.ok
           /\ workloadServiceUUIDToDeploymentUUIDs' = workloadServiceUUIDToDeploymentUUIDs
           /\ services' = services
           /\ pods' = pods
           /\ podQueue' \subseteq podQueue
           /\ svcQueue' \subseteq svcQueue)]_vars

\* the pods of the key's namespace that carry the service's label with the
\* value "true" in the pod store P
Carriers(P, key) ==
  {p \in PodNames : /\ P[p].exists
                    /\ PodNamespace(p) = key[1]
                    /\ <<getServiceSelector(key[2]), "true">> \in P[p].labels.kv}

C16_FullReplaceStore ==
  [][(/\ last'.op = "svc" /\ ControllerSync(last'.key)
      /\ last'.path = "workload" /\ last'.ok)
       => LET key == last'.key
              ids == isWorkloadService(services[key])
              resolved == {w \in Workloads : \E i \in 1..Len(ids) : ids[i] = w.id}
          IN workloadServiceUUIDToDeploymentUUIDs' =
               [workloadServiceUUIDToDeploymentUUIDs EXCEPT
                  ![key] = [ok |-> TRUE,
                            v |-> {<<w.namespace, w.name>> : w \in resolved}]]]_vars

\* a sync of svc1 replaced an entry that held a workload key the new set lacks
C16_Witness ==
  /\ last.op = "svc" /\ last.path = "workload" /\ last.ok
  /\ last.key = <<"ns1", "svc1">>
  /\ cycle.old.ok
  /\ cycle.old.v \ workloadServiceUUIDToDeploymentUUIDs[<<"ns1", "svc1">>].v # {}
  /\ workloadServiceUUIDToDeploymentUUIDs[<<"ns1", "svc1">>].v # {}

\* a sync of svc1 stored a set equal to the one the entry already held
C16_WitnessEqual ==
  /\ last.op = "svc" /\ last.path = "workload" /\ last.ok
  /\ last.key = <<"ns1", "svc1">>
  /\ cycle.old = workloadServiceUUIDToDeploymentUUIDs[<<"ns1", "svc1">>]

\* C17: in a Controller.sync of a service that is absent or marked for
\* deletion: when the key has an entry and the sweep's List succeeds, the pods
\* that carry the service's label are enqueued and the entry is deleted; when
\* the List fails the sync returns the error with the entry still in place,
\* so the Delete comes after the sweep; when the key has no entry the sync
\* returns nil, enqueues no pod and leaves the sync.Map as it was.
C17_RemovalOrdering ==
  [][(/\ last'.op = "svc"
      /\ ControllerSync(last'.key) \/ ControllerSyncError(last'.key)
      /\ ~services[last'.key].exists \/ services[last'.key].deleting)
       => LET key == last'.key
              R == workloadServiceUUIDToDeploymentUUIDs
          IN IF ~R[key].ok
             THEN /\ last'.ok
                  /\ podQueue' = podQueue
                  /\ R' = R
             ELSE IF last'.ok
                  THEN /\ podQueue' = podQueue \cup Carriers(pods, key)
                       /\ R' = [R EXCEPT ![key] = [ok |-> FALSE, v |-> {}]]
                  ELSE /\ podQueue' = podQueue
                       /\ R' = R]_vars

\* the removal of svc1 enqueued a pod that was not queued and deleted the entry
C17_Witness ==
  /\ last.op = "svc" /\ last.path = "removed" /\ last.ok
  /\ last.key = <<"ns1", "svc1">>
  /\ last.enqueued # {}
  /\ last.enqueued \subseteq podQueue
  /\ ~workloadServiceUUIDToDeploymentUUIDs[<<"ns1", "svc1">>].ok

\* the removal of svc1 failed in the sweep and the entry is still there
C17_WitnessFailed ==
  /\ last.op = "svc" /\ last.path = "removed" /\ ~last.ok
  /\ workloadServiceUUIDToDeploymentUUIDs[<<"ns1", "svc1">>].ok

\* the key has the form workloadID_<name>
Synthetic(key) == Len(key) = 3 /\ key[1] = WorkloadIDLabelPrefix /\ key[2] = "_"

\* after a PodController.sync of pod p that returns nil, every label of p
\* with a key of the form workloadID_<name> is in the selector of a service
\* whose entry holds a workload that p belongs to
SyntheticOnlyFromDependents ==
  [][(/\ last'.op = "pod" /\ last'.ok /\ last'.path = "labels"
      /\ PodControllerSync(last'.key))
       => LET p == last'.key
              mine == {WorkloadUUID(w) :
                         w \in GetWorkloadsMatchingLabels(PodNamespace(p), pods[p].labels)}
          IN \A e \in pods'[p].labels.kv :
               Synthetic(e[1])
                 => \E k \in SvcKeys :
                      /\ workloadServiceUUIDToDeploymentUUIDs[k].ok
                      /\ workloadServiceUUIDToDeploymentUUIDs[k].v \cap mine # {}
                      /\ MapHas(services[k].sel, e[1])]_vars

\* after a PodController.sync of pod p that returns nil, p still has every
\* label whose key starts with workloadID without having the form
\* workloadID_<name>
PrefixedNotSyntheticKept ==
  [][(/\ last'.op = "pod" /\ last'.ok /\ last'.path = "labels"
      /\ PodControllerSync(last'.key))
       => \A e \in pods[last'.key].labels.kv :
            (HasPrefix(e[1]) /\ ~Synthetic(e[1]))
              => MapHas(pods'[last'.key].labels.kv, e[1])]_vars

\* C18: after a PodController.sync of a pod not marked for deletion that
\* returns nil, the pod has a label with a key of the form workloadID_<name>
\* only if the key is in the selector of a service whose entry holds a
\* workload of the pod, and a label whose key only starts with workloadID is
\* kept.
C18_StaleLabelRemoval == SyntheticOnlyFromDependents /\ PrefixedNotSyntheticKept

\* a Controller.sync of the key, run now, would call neither services.Update
\* nor pods.Update
ServiceUpdateFree(key) ==
  LET obj == services[key]
      workloadIDs == isWorkloadService(obj)
  IN (obj.exists /\ ~obj.deleting /\ Len(workloadIDs) > 0)
       => /\ ~InstallNeeded(obj, key)
          /\ \A p \in PodNames : podsToUpdate(pods, obj.sel, workloadIDs, p) = 0

\* a PodController.sync of the pod, run now, would not call pods.Update,
\* whatever order the Range visits the entries in
PodUpdateFree(p) ==
  (pods[p].exists /\ ~pods[p].del)
    => \A workloads \in Perms(GetWorkloadsMatchingLabels(PodNamespace(p), pods[p].labels)) :
       \A rangeOrder \in Perms(SvcKeys) :
         LET uuids == workloadServiceUUIDToAdd(
                        workloadServiceUUIDToDeploymentUUIDs, workloads, rangeOrder, 1)
             merged == workloadServicesLabels(services, PodNamespace(p), uuids, {})
         IN \/ merged.err
            \/ DeepEqual(pods[p].labels, MakeLabels(newLabels(pods[p].labels, merged.m)))

\* svc1 and svc2 both have an entry holding wlA and their selectors give the
\* label tier different values
Disagree ==
  /\ \A k \in {<<"ns1", "svc1">>, <<"ns1", "svc2">>} :
       /\ services[k].exists
       /\ <<"ns1", "wlA">> \in workloadServiceUUIDToDeploymentUUIDs[k].v
  /\ <<TierKey, "one">> \in services[<<"ns1", "svc1">>].sel
  /\ <<TierKey, "two">> \in services[<<"ns1", "svc2">>].sel

\* C20: with the services, workloads and pods left alone, once every key
\* that an update delivered has been handled, the state is one in which no
\* Controller.sync and no PodController.sync issues a service or pod update,
\* also when two services that target the same workload give a label
\* different values.
C20_QuiescenceWithoutOscillation ==
  (svcQueue = {} /\ podQueue = {})
    => /\ \A key \in SvcKeys : ServiceUpdateFree(key)
       /\ \A p \in PodNames : PodUpdateFree(p)

\* the same, for the states in which the selectors do not disagree
C20_QuiescenceWhenAgreeing == Disagree \/ C20_QuiescenceWithoutOscillation

\* no state at all in which the selectors disagree is free of updates
C20_NeverUpdateFreeWhenDisagreeing ==
  Disagree => ~(/\ \A key \in SvcKeys : ServiceUpdateFree(key)
                /\ \A p \in PodNames : PodUpdateFree(p))

(***************************************************************************)
(* The specification with updatePods run one workload at a time.  The map  *)
(* targetWorkloadUUIDs is a local of updatePods (line 174) until           *)
(* Controller.sync stores it (line 110); PodController.sync may Range over *)
(* the sync.Map at any point in between.  pending[key] holds the locals of *)
(* the running Controller.sync: the object's selector and identifiers as   *)
(* read at entry, the map built so far, the position in the identifier     *)
(* list and podsToUpdate, each pod as the lister returned it.              *)
(***************************************************************************)
\* a map filled in the stored value instead of a local one
PublishedInPlace(key, uuids) ==
  [workloadServiceUUIDToDeploymentUUIDs EXCEPT ![key] = Entry(uuids)]

\* the sync.Map while updatePods fills its local map (lines 174-184)
PublishedWhileBuilding(key, uuids) == workloadServiceUUIDToDeploymentUUIDs

\* Controller.sync from its entry to the first loop of updatePods: the
\* removal path and the service without targets up to their end, otherwise
\* reconcilePods up to the call of updatePods (lines 155-169) and line 174
ScanBegin(key) ==
  /\ key \in svcQueue
  /\ pending[key].kind = "none"
  /\ LET obj == services[key]
         workloadIDs == isWorkloadService(obj)
         install == InstallNeeded(obj, key)
     IN IF ~obj.exists \/ obj.deleting \/ Len(workloadIDs) = 0
        THEN SyncBegin(key)
        ELSE /\ services' = IF install
                            THEN [services EXCEPT ![key].sel = InstalledSelector(obj, key)]
                            ELSE services
             /\ svcQueue' = IF install THEN svcQueue \cup {key} ELSE svcQueue \ {key}
             /\ installs' = IF install THEN [installs EXCEPT ![key] = @ + 1] ELSE installs
             /\ last' = [Idle EXCEPT !.op = "svc", !.key = key, !.path = "begin",
                                     !.svcUpdates = IF install THEN 1 ELSE 0]
             /\ cycle' = NoCycle
             /\ pending' = [pending EXCEPT ![key] =
                              [kind |-> "building", uuids |-> {}, ids |-> workloadIDs,
                               sel |-> obj.sel, at |-> 0, todo |-> <<>>]]
             /\ UNCHANGED <<pods, podQueue, workloadServiceUUIDToDeploymentUUIDs,
                            edits, resyncs>>

\* one round of the first loop of updatePods (lines 175-207)
ResolveNext(key) ==
  /\ pending[key].kind = "building"
  /\ pending[key].at < Len(pending[key].ids)
  /\ LET loc == pending[key]
         i == loc.at + 1
         r == GetByWorkloadID(loc.ids[i])
         uuids == IF r.err THEN loc.uuids ELSE loc.uuids \cup {WorkloadUUID(r.w)}
     IN /\ \E order \in Perms(AppendedFor(pods, loc.sel, loc.ids, i)) :
             pending' = [pending EXCEPT ![key] =
                           [loc EXCEPT !.uuids = uuids, !.at = i,
                                       !.todo = @ \o [j \in 1..Len(order) |->
                                                        [p |-> order[j], was |-> pods[order[j]]]]]]
        /\ workloadServiceUUIDToDeploymentUUIDs' = PublishedWhileBuilding(key, uuids)
        /\ last' = [Idle EXCEPT !.op = "svc", !.key = key, !.path = "resolve"]
  /\ UNCHANGED <<services, pods, svcQueue, podQueue, edits, resyncs, cycle, installs>>

\* the number of pods at the head of todo that the store still holds as listed
RECURSIVE Fresh(_, _)
Fresh(todo, i) ==
  IF i > Len(todo) \/ pods[todo[i].p] # todo[i].was THEN i - 1 ELSE Fresh(todo, i + 1)

\* the second loop of updatePods (lines 210-219), then Controller.sync lines
\* 87-107.  pods.Update of a pod that changed since it was listed is refused
\* by the store and the sync returns the error.
ScanFinish(key) ==
  /\ pending[key].kind = "building"
  /\ pending[key].at = Len(pending[key].ids)
  /\ LET loc == pending[key]
         n == Fresh(loc.todo, 1)
         order == [j \in 1..Len(loc.todo) |-> loc.todo[j].p]
         newPods == UpdatedUpTo(pods, loc.sel, order, n)
         ok == n = Len(loc.todo)
         doCleanup == ok /\ cleanup(workloadServiceUUIDToDeploymentUUIDs[key], loc.uuids)
         swept == IF doCleanup THEN updateServiceWorkloadPods(newPods, key) ELSE {}
     IN /\ pods' = newPods
        /\ podQueue' = podQueue \cup Changed(pods, newPods) \cup swept
        /\ svcQueue' = IF ok THEN svcQueue ELSE svcQueue \cup {key}
        /\ last' = [Idle EXCEPT !.op = "svc", !.key = key, !.ok = ok, !.path = "workload",
                      !.podUpdates = [p \in PodNames |-> IF pods[p] # newPods[p] THEN 1 ELSE 0],
                      !.enqueued = swept]
        /\ pending' = [pending EXCEPT ![key] =
                         IF ok THEN [kind |-> "store", uuids |-> loc.uuids, ids |-> loc.ids]
                         ELSE NoWrite]
  /\ UNCHANGED <<services, workloadServiceUUIDToDeploymentUUIDs, edits, resyncs,
                 cycle, installs>>

\* the Store of line 110 or the Delete of line 76, and the return
ScanStore(key) ==
  /\ pending[key].kind \in {"store", "delete"}
  /\ SyncEnd(key)

NextScan ==
  \/ \E key \in SvcKeys : ScanBegin(key)
  \/ \E key \in SvcKeys : ResolveNext(key)
  \/ \E key \in SvcKeys : ScanFinish(key)
  \/ \E key \in SvcKeys : ScanStore(key)
  \/ \E p \in PodNames : PodControllerSync(p)
  \/ \E key \in SvcKeys, ann \in EditAnns : EditService(key, ann)
  \/ \E key \in SvcKeys : MarkServiceDeleted(key)

SpecScan == InitConc /\ [][NextScan]_vars

\* the namespace/name keys of all the workloads the identifiers resolve to
FullSet(ids) ==
  {<<w.namespace, w.name>> : w \in {w \in Workloads : \E i \in 1..Len(ids) : ids[i] = w.id}}

\* C19: with PodController.sync running between the steps of a
\* Controller.sync, the value the sync.Map holds for a key changes only by
\* the Delete or by the Store of a set that the storing Controller.sync has
\* computed from all its identifiers; a map under construction is not
\* visible to a Range and a stored set is not changed in place.
C19_AtomicReplacement ==
  [][\A k \in SvcKeys :
       (workloadServiceUUIDToDeploymentUUIDs'[k] # workloadServiceUUIDToDeploymentUUIDs[k])
         => \/ /\ pending[k].kind = "delete"
               /\ workloadServiceUUIDToDeploymentUUIDs'[k] = [ok |-> FALSE, v |-> {}]
            \/ /\ pending[k].kind = "store"
               /\ workloadServiceUUIDToDeploymentUUIDs'[k] =
                    [ok |-> TRUE, v |-> FullSet(pending[k].ids)]]_vars

\* a PodController.sync has just run its Range while svc1's sync holds a map
\* with one of its two workloads in it and svc1's stored set is another one
C19_Witness ==
  /\ last.op = "pod" /\ last.path = "labels"
  /\ pending[<<"ns1", "svc1">>].kind = "building"
  /\ pending[<<"ns1", "svc1">>].at = 1
  /\ Len(pending[<<"ns1", "svc1">>].ids) = 2
  /\ pending[<<"ns1", "svc1">>].uuids # {}
  /\ workloadServiceUUIDToDeploymentUUIDs[<<"ns1", "svc1">>].ok
  /\ workloadServiceUUIDToDeploymentUUIDs[<<"ns1", "svc1">>].v
       # pending[<<"ns1", "svc1">>].uuids

(***************************************************************************)
(* The specification of a controller process that starts against a store  *)
(* it has worked on before.  workloadServiceUUIDToDeploymentUUIDs is a     *)
(* package variable and starts empty with every process; the services and  *)
(* pods of the store may still carry what an earlier process wrote: the    *)
(* selector term and the pod label.  Nothing but the two handlers acts.    *)
(***************************************************************************)
LiveKey == <<"ns1", "svc1">>

InitLive ==
  /\ services \in
       {[k \in SvcKeys |->
           IF k = LiveKey
           THEN [exists |-> TRUE, deleting |-> FALSE,
                 ann |-> [kind |-> "list", ids |-> ids],
                 noop |-> "absent", sel |-> sel]
           ELSE Absent] :
          ids \in {<<"wlA">>, <<"wlA", "wlB">>},
          sel \in {{}, {<<getServiceSelector(LiveKey[2]), "true">>}}}
  /\ pods \in
       {[p \in PodNames |->
           IF p \in {"pA", "pB"}
           THEN [exists |-> TRUE, del |-> FALSE,
                 labels |-> IF p \in labelled
                            THEN MakeLabels(StartLabels(p).kv
                                   \cup {<<getServiceSelector(LiveKey[2]), "true">>})
                            ELSE StartLabels(p)]
           ELSE NoPod] :
          labelled \in SUBSET {"pA", "pB"}}
  /\ workloadServiceUUIDToDeploymentUUIDs = [k \in SvcKeys |-> NoEntry]
  /\ svcQueue = {k \in SvcKeys : services[k].exists}
  /\ podQueue = {p \in PodNames : pods[p].exists}
  /\ edits = 0
  /\ resyncs = 0
  /\ last = Idle
  /\ cycle = NoCycle
  /\ installs = [k \in SvcKeys |-> 0]
  /\ pending = [k \in SvcKeys |-> NoWrite]

NextLive ==
  \/ \E key \in SvcKeys : SyncBegin(key)
  \/ \E key \in SvcKeys : SyncEnd(key)
  \/ \E p \in PodNames : PodControllerSync(p)

\* every worker keeps taking keys off its queue
SpecLive == InitLive /\ [][NextLive]_vars /\ WF_vars(NextLive)

\* the pod belongs to a workload that svc1's identifiers resolve to
LiveMember(p) ==
  /\ pods[p].exists /\ ~pods[p].del
  /\ WorkloadsOf(p) \cap FullSet(isWorkloadService(services[LiveKey])) # {}

\* the claim in its temporal form: under every interleaving, with every
\* queued key handled in the end, the pod of a target workload eventually
\* carries workloadID_svc1 = "true" and keeps it from then on
LabelEventuallyStable ==
  \A p \in {"pA", "pB"} :
    LiveMember(p) => <>[](Term(LiveKey) \in pods[p].labels.kv)

\* C21: svc1 has targets and does not change; under every interleaving of
\* its Controller.sync, the Store taken as a step of its own, with the
\* PodController.sync of the pods, once nothing is queued and no handler
\* runs, which is the state the system stays in, every pod of a target
\* workload carries workloadID_svc1 = "true".
C21_LabelWhenDrained ==
  Quiescent => \A p \in {"pA", "pB"} : LiveMember(p) => Term(LiveKey) \in pods[p].labels.kv

\* the same for the process that finds the selector without the term
C21_LabelWhenDrainedFresh ==
  installs[LiveKey] = 0 \/ C21_LabelWhenDrained

(***************************************************************************)
(* The specification with a service and its target in different            *)
(* namespaces: ns1/svc1 targets wlC of ns2, and ns2 may hold a service     *)
(* named svc1 of its own.                                                  *)
(***************************************************************************)
NsSelector(key) == IF key[1] = "ns1" THEN {<<TierKey, "one">>} ELSE {<<TierKey, "two">>}

InitNs ==
  /\ services \in
       {[k \in SvcKeys |->
           IF k = <<"ns1", "svc1">>
           THEN [exists |-> TRUE, deleting |-> FALSE,
                 ann |-> [kind |-> "list", ids |-> ids],
                 noop |-> "absent", sel |-> NsSelector(k)]
           ELSE IF k = <<"ns2", "svc1">> /\ other.exists
           THEN [exists |-> TRUE, deleting |-> FALSE, ann |-> other.ann,
                 noop |-> "absent", sel |-> NsSelector(k)]
           ELSE Absent] :
          ids \in {<<"wlC">>, <<"wlA", "wlC">>},
          other \in {[exists |-> FALSE, ann |-> Absent.ann],
                     [exists |-> TRUE, ann |-> Absent.ann],
                     [exists |-> TRUE, ann |-> [kind |-> "list", ids |-> <<"wlC">>]]}}
  /\ pods = [p \in PodNames |->
               IF p \in {"pA", "pC"}
               THEN [exists |-> TRUE, labels |-> StartLabels(p), del |-> FALSE]
               ELSE NoPod]
  /\ workloadServiceUUIDToDeploymentUUIDs = [k \in SvcKeys |-> NoEntry]
  /\ svcQueue = {k \in SvcKeys : services[k].exists}
  /\ podQueue = {p \in PodNames : pods[p].exists}
  /\ edits = 0
  /\ resyncs = 0
  /\ last = Idle
  /\ cycle = NoCycle
  /\ installs = [k \in SvcKeys |-> 0]
  /\ pending = [k \in SvcKeys |-> NoWrite]

NextNs ==
  \/ \E key \in SvcKeys : ControllerSync(key)
  \/ \E p \in PodNames : PodControllerSync(p)
  \/ \E key \in SvcKeys : ResyncService(key)
  \/ \E p \in PodNames : ResyncPod(p)

SpecNs == InitNs /\ [][NextNs]_vars

\* the selectors of the collected services merged in order, each service
\* being the one the collected key names
RECURSIVE KeyedServicesLabels(_, _, _)
KeyedServicesLabels(S, uuids, acc) ==
  IF uuids = <<>> THEN [err |-> FALSE, m |-> acc]
  ELSE LET workload == ServiceGet(S, Head(uuids)[1], Head(uuids)[2])
       IN IF workload.err THEN [err |-> TRUE, m |-> acc]
          ELSE KeyedServicesLabels(S, Tail(uuids), MapOverlay(acc, workload.obj.sel))

\* C22: in a PodController.sync of a pod not marked for deletion, for every
\* key namespace/name collected from the sync.Map the selector merged into
\* the pod's labels is that of the service with this namespace and name,
\* also when the pod is in another namespace than the service: the sync
\* returns nil when all these services exist, and the labels it computes are
\* those computed from their selectors, for some order of the Range.
C22_LookupMatchesKey ==
  [][(/\ last'.op = "pod" /\ PodControllerSync(last'.key)
      /\ pods[last'.key].exists /\ ~pods[last'.key].del)
       => LET p == last'.key
          IN \E workloads \in Perms(GetWorkloadsMatchingLabels(PodNamespace(p), pods[p].labels)) :
             \E rangeOrder \in Perms(SvcKeys) :
               LET uuids == workloadServiceUUIDToAdd(
                              workloadServiceUUIDToDeploymentUUIDs, workloads,
                              rangeOrder, 1)
                   keyed == KeyedServicesLabels(services, uuids, {})
               IN IF keyed.err
                  THEN ~last'.ok
                  ELSE /\ last'.ok
                       /\ last'.recomputed = MakeLabels(newLabels(pods[p].labels, keyed.m))]_vars

\* a PodController.sync of pC, for which only the key ns1/svc1 is collected,
\* has given pC the value of tier that ns2/svc1 selects
WrongServiceMerged ==
  /\ last.op = "pod" /\ last.key = "pC" /\ last.ok
  /\ ~workloadServiceUUIDToDeploymentUUIDs[<<"ns2", "svc1">>].ok
  /\ <<"ns2", "wlC">> \in workloadServiceUUIDToDeploymentUUIDs[<<"ns1", "svc1">>].v
  /\ <<TierKey, "two">> \in pods["pC"].labels.kv

\* a pod that carries every pair of the selector handed to updatePods gets
\* no pods.Update from the Controller.sync
NoWriteWhenCarryingAll ==
  [][(/\ last'.op = "svc" /\ ControllerSync(last'.key)
      /\ last'.path = "workload")
       => \A p \in PodNames :
            (services[last'.key].sel \subseteq pods[p].labels.kv)
              => last'.podUpdates[p] = 0]_vars

\* C23: in one Controller.sync every pod gets at most one pods.Update call,
\* also when it lacks several pairs of the selector or belongs to several of
\* the resolved workloads.
C23_AtMostOneWritePerPod ==
  last.op = "svc" => \A p \in PodNames : last.podUpdates[p] <= 1

====
